---- MODULE Spec2Model ----
(***************************************************************************)
(* Model of apps/core/models.py: the SequenceGenerator counter             *)
(* (get_next_number and the save() chain it runs through) and the          *)
(* Notification read flag (mark_as_read).                                  *)
(*                                                                         *)
(* Strings are sequences of one-character strings, so that formatting      *)
(* (str, zfill, concatenation) is computed and not assumed.                *)
(***************************************************************************)
EXTENDS Integers, Sequences, FiniteSets, TLC

\* ---- bounds of the model ------------------------------------------------
NumCallers == 2        \* concurrent callers
MaxCalls == 3          \* get_next_number calls begun, concurrent callers
MaxSetupCalls == 1     \* get_next_number calls begun while rows come and go
MaxSerialCalls == 6    \* get_next_number calls begun, one caller
MaxNew == 1            \* instances constructed after setup
MaxTicks == 1          \* date changes
MaxMarks == 2          \* mark_as_read calls begun
MaxSessions == 2       \* AcademicSession rows
MaxSaves == 3          \* AcademicSession.save calls begun
MaxDels == 3           \* delete and restore calls begun

Callers == 1..NumCallers
PKs == 1..(2 + MaxNew)
SPKs == 1..MaxSessions

\* ---- values -------------------------------------------------------------
None == "None"
NoRow == [stored |-> FALSE]
NoObj == [held |-> FALSE]
NoTime == <<>>

\* The field values SoftDeleteModel gives a new record: is_deleted defaults
\* to False and deleted_at to null.
NotDeleted == [is_deleted |-> FALSE, deleted_at |-> NoTime]

\* members of SequenceGenerator.SequenceType used by the model
SequenceType == {"student_id", "invoice", "receipt"}

STU == <<"S", "T", "U", "-">>
INV == <<"I", "N", "V">>
SLASH_A == <<"/", "A">>

\* The field values the counter of each kind is constructed with
\* (padding defaults to 6, last_number to 0, prefix and suffix may be blank;
\* the receipt counter continues a series that stood at 99).
Setup(k) ==
  CASE k = "student_id" ->
         [prefix |-> STU, suffix |-> <<>>, padding |-> 4,
          reset_frequency |-> "never", last_number |-> 0]
    [] k = "invoice" ->
         [prefix |-> INV, suffix |-> SLASH_A, padding |-> 6,
          reset_frequency |-> "yearly", last_number |-> 0]
    [] k = "receipt" ->
         [prefix |-> <<>>, suffix |-> <<>>, padding |-> 2,
          reset_frequency |-> "monthly", last_number |-> 99]

VARIABLES
  rows,     \* the core_sequencegenerator table: pk -> row, or NoRow
  nextPk,   \* the next value uuid.uuid4() hands out
  obj,      \* the SequenceGenerator instance each caller holds in memory
  pc,       \* where each caller stands inside get_next_number
  err,      \* the exception the caller's last call raised, or None
  log,      \* history: the calls that returned, in order of return
  from,     \* history: self.last_number when the caller's call began
  begun,    \* history: Len(log) when the caller's call began
  at,       \* history: the date when the caller's call began
  calls,    \* history: number of get_next_number calls begun
  now,      \* the date, <<year, month, day>>
  ticks,    \* number of date changes so far
  note,     \* the stored row of one Notification, or NoRow
  nobj,     \* the Notification instance each caller holds in memory
  npc,      \* where each caller stands inside mark_as_read
  marks,    \* history: number of mark_as_read calls begun
  marked,   \* history: number of mark_as_read calls that returned
  seen,     \* history: marked, when the caller last read the row
  sess,     \* the core_academicsession table: pk -> row, or NoRow
  snext,    \* the next primary key of an AcademicSession
  sobj,     \* the AcademicSession instance each caller holds in memory
  spc,      \* where each caller stands inside AcademicSession.save
  saves,    \* history: number of AcademicSession.save calls begun
  drow,     \* the stored row of one soft-deletable record, or NoRow
  dobj,     \* the instance of that record each caller holds in memory
  dpc,      \* where each caller stands inside delete or restore
  dels,     \* history: number of delete and restore calls begun
  dlast     \* history: what each caller's latest calls on its instance did

svars == <<rows, nextPk, obj, pc, err, log, from, begun, at, calls>>
nvars == <<note, nobj, npc, marks, marked, seen>>
avars == <<sess, snext, sobj, spc, saves>>
dvars == <<drow, dobj, dpc, dels, dlast>>
vars == <<svars, nvars, avars, dvars, now, ticks>>

\* ---- formatting ---------------------------------------------------------
Digits == <<"0", "1", "2", "3", "4", "5", "6", "7", "8", "9">>

\* str(n) for n >= 0: the decimal digits, most significant first.
RECURSIVE Str(_)
Str(n) == IF n < 10 THEN <<Digits[n + 1]>>
          ELSE Str(n \div 10) \o <<Digits[(n % 10) + 1]>>

\* Variant of zfill that keeps exactly width characters, cutting digits.
zfill_cut(s, width) ==
  LET padded == [i \in 1..width |-> "0"] \o s
  IN SubSeq(padded, Len(padded) - width + 1, Len(padded))

\* s.zfill(width) for a string without sign: left-padded with "0", never cut.
zfill(s, width) ==
  IF Len(s) >= width THEN s
  ELSE [i \in 1..(width - Len(s)) |-> "0"] \o s

\* Variant of number_str without the padding.
NumberStr_unpadded(o) == Str(o.last_number)

\* number_str and the f-string of get_next_number.
NumberStr(o) == zfill(Str(o.last_number), o.padding)

Format(o) == o.prefix \o NumberStr(o) \o o.suffix

\* ---- rows and instances -------------------------------------------------
RowOf(o) ==
  [sequence_type |-> o.sequence_type, prefix |-> o.prefix, suffix |-> o.suffix,
   padding |-> o.padding, reset_frequency |-> o.reset_frequency,
   last_number |-> o.last_number]

InstanceOf(pk, r, adding) ==
  [pk |-> pk, adding |-> adding,
   sequence_type |-> r.sequence_type, prefix |-> r.prefix, suffix |-> r.suffix,
   padding |-> r.padding, reset_frequency |-> r.reset_frequency,
   last_number |-> r.last_number]

\* The counters stored at setup, by primary key; "receipt" has none.
Configured == <<"student_id", "invoice">>

\* unique=True on sequence_type: may a row of this kind be stored under pk?
UniqueOk(pk, kind) ==
  \A q \in PKs : (q # pk /\ rows[q] # NoRow) => rows[q].sequence_type # kind

Init ==
  /\ rows = [p \in PKs |-> IF p \in DOMAIN Configured
                             THEN [sequence_type |-> Configured[p]] @@ Setup(Configured[p])
                             ELSE NoRow]
  /\ nextPk = Len(Configured) + 1
  /\ obj = [c \in Callers |-> NoObj]
  /\ pc = [c \in Callers |-> "idle"]
  /\ err = [c \in Callers |-> None]
  /\ log = <<>>
  /\ from = [c \in Callers |-> 0]
  /\ begun = [c \in Callers |-> 0]
  /\ at = [c \in Callers |-> <<0, 0, 0>>]
  /\ calls = 0
  /\ now = <<0, 0, 0>>
  /\ ticks = 0
  /\ note = NoRow
  /\ nobj = [c \in Callers |-> NoObj]
  /\ npc = [c \in Callers |-> "idle"]
  /\ marks = 0
  /\ marked = 0
  /\ seen = [c \in Callers |-> 0]
  /\ sess = [p \in SPKs |-> IF p = 1 THEN [is_current |-> TRUE] ELSE NoRow]
  /\ snext = 2
  /\ sobj = [c \in Callers |-> NoObj]
  /\ spc = [c \in Callers |-> "idle"]
  /\ saves = 0
  /\ drow = NotDeleted
  /\ dobj = [c \in Callers |-> NoObj]
  /\ dpc = [c \in Callers |-> "idle"]
  /\ dels = 0
  /\ dlast = [c \in Callers |-> "none"]

\* SequenceGenerator(sequence_type=k, **Setup(k)): a new instance, not yet saved;
\* UUIDModel gives it a fresh primary key.
New(c, k) ==
  /\ pc[c] = "idle"
  /\ nextPk \in PKs
  /\ obj' = [obj EXCEPT ![c] = InstanceOf(nextPk, [sequence_type |-> k] @@ Setup(k), TRUE)]
  /\ nextPk' = nextPk + 1
  /\ err' = [err EXCEPT ![c] = None]
  /\ from' = [from EXCEPT ![c] = 0]
  /\ UNCHANGED <<rows, pc, log, begun, at, calls, now, ticks, nvars, avars, dvars>>

\* A caller loads the stored row into an instance of its own.
Load(c, p) ==
  /\ pc[c] = "idle"
  /\ rows[p] # NoRow
  /\ obj' = [obj EXCEPT ![c] = InstanceOf(p, rows[p], FALSE)]
  /\ err' = [err EXCEPT ![c] = None]
  /\ from' = [from EXCEPT ![c] = 0]
  /\ UNCHANGED <<rows, nextPk, pc, log, begun, at, calls, now, ticks, nvars, avars, dvars>>

\* get_next_number, line 503: self.last_number += 1
Incremented(o) == [o EXCEPT !.last_number = @ + 1]

\* Variant of StatusModel.save without the lookup.
Missing_never(o) == FALSE

\* StatusModel.save, lines 60-61: an instance that is not being added is
\* looked up by primary key; objects.get raises DoesNotExist when the row
\* is gone.
Missing(o) == ~o.adding /\ rows[o.pk] = NoRow

\* A call begins: the increment in memory, then self.save() as far as the
\* lookup of StatusModel.save.  get_next_number does not change the status,
\* so the lookup has no other effect.
Begin(c, limit) ==
  /\ pc[c] = "idle"
  /\ obj[c] # NoObj
  /\ calls < limit
  /\ calls' = calls + 1
  /\ obj' = [obj EXCEPT ![c] = Incremented(obj[c])]
  /\ from' = [from EXCEPT ![c] = obj[c].last_number]
  /\ IF Missing(obj[c])
       THEN /\ err' = [err EXCEPT ![c] = "DoesNotExist"]
            /\ UNCHANGED <<pc, begun, at>>
       ELSE /\ pc' = [pc EXCEPT ![c] = "save"]
            /\ err' = [err EXCEPT ![c] = None]
            /\ begun' = [begun EXCEPT ![c] = Len(log)]
            /\ at' = [at EXCEPT ![c] = now]
  /\ UNCHANGED <<rows, nextPk, log, now, ticks, nvars, avars, dvars>>

\* super().save(), line 64: UPDATE of every field WHERE pk = self.pk and,
\* when that touches no row, INSERT.  The unique sequence_type makes the
\* INSERT fail when another row of that kind is stored.
CanWrite(o) == rows[o.pk] # NoRow \/ UniqueOk(o.pk, o.sequence_type)

\* Variant of the write without its WHERE clause: every stored row takes
\* the number.
Written_everywhere(o) ==
  [p \in PKs |-> IF p = o.pk THEN RowOf(o)
                 ELSE IF rows[p] = NoRow THEN NoRow
                 ELSE [rows[p] EXCEPT !.last_number = o.last_number]]

\* The table after the write.
Written(o) == [rows EXCEPT ![o.pk] = RowOf(o)]

\* A call ends: the write of save(), then lines 506-507 format the number
\* and return it.
Commit(c) ==
  /\ pc[c] = "save"
  /\ pc' = [pc EXCEPT ![c] = "idle"]
  /\ IF CanWrite(obj[c])
       THEN /\ rows' = Written(obj[c])
            /\ obj' = [obj EXCEPT ![c].adding = FALSE]
            /\ log' = Append(log, [caller |-> c, pk |-> obj[c].pk,
                                   sequence_type |-> obj[c].sequence_type,
                                   number |-> obj[c].last_number,
                                   string |-> Format(obj[c]),
                                   stored |-> Written(obj[c])[obj[c].pk].last_number,
                                   created |-> rows[obj[c].pk] = NoRow,
                                   from |-> from[c], begun |-> begun[c],
                                   at |-> at[c]])
            /\ from' = [from EXCEPT ![c] = 0]
            /\ err' = err
       ELSE /\ err' = [err EXCEPT ![c] = "IntegrityError"]
            /\ UNCHANGED <<rows, obj, log, from>>
  /\ begun' = [begun EXCEPT ![c] = 0]
  /\ at' = [at EXCEPT ![c] = <<0, 0, 0>>]
  /\ UNCHANGED <<nextPk, calls, now, ticks, nvars, avars, dvars>>

\* The write fails in the database (connection lost, deadlock, ...): the
\* exception leaves save() and get_next_number; nothing is stored.
SaveFails(c) ==
  /\ pc[c] = "save"
  /\ pc' = [pc EXCEPT ![c] = "idle"]
  /\ err' = [err EXCEPT ![c] = "DatabaseError"]
  /\ begun' = [begun EXCEPT ![c] = 0]
  /\ at' = [at EXCEPT ![c] = <<0, 0, 0>>]
  /\ UNCHANGED <<rows, nextPk, obj, log, from, calls, now, ticks, nvars, avars, dvars>>

\* SoftDeleteModel.hard_delete: DELETE WHERE pk = self.pk.  The caller
\* lets go of the instance it deleted.
HardDelete(c) ==
  /\ pc[c] = "idle"
  /\ obj[c] # NoObj
  /\ rows' = [rows EXCEPT ![obj[c].pk] = NoRow]
  /\ obj' = [obj EXCEPT ![c] = NoObj]
  /\ err' = [err EXCEPT ![c] = None]
  /\ from' = [from EXCEPT ![c] = 0]
  /\ UNCHANGED <<nextPk, pc, log, begun, at, calls, now, ticks, nvars, avars, dvars>>

\* The date changes: a new day, a new month or a new year begins.
NextDate(u) ==
  CASE u = "day" -> <<now[1], now[2], now[3] + 1>>
    [] u = "month" -> <<now[1], now[2] + 1, 0>>
    [] u = "year" -> <<now[1] + 1, 0, 0>>

Tick(u) ==
  /\ ticks < MaxTicks
  /\ now' = NextDate(u)
  /\ ticks' = ticks + 1
  /\ UNCHANGED <<svars, nvars, avars, dvars>>

\* ---- Notification ------------------------------------------------------

\* The field values of a new Notification: is_read defaults to False and
\* read_at to null.
Unread == [is_read |-> FALSE, read_at |-> NoTime]

\* Notification.objects.create(...): the row is inserted, unread.
Create(c) ==
  /\ note = NoRow
  /\ npc[c] = "idle"
  /\ note' = Unread
  /\ nobj' = [nobj EXCEPT ![c] = Unread]
  /\ seen' = [seen EXCEPT ![c] = marked]
  /\ UNCHANGED <<npc, marks, marked, svars, avars, dvars, now, ticks>>

\* refresh_from_db(), or a first load: the instance takes the stored values.
Refresh(c) ==
  /\ note # NoRow
  /\ npc[c] = "idle"
  /\ nobj' = [nobj EXCEPT ![c] = note]
  /\ seen' = [seen EXCEPT ![c] = marked]
  /\ UNCHANGED <<note, npc, marks, marked, svars, avars, dvars, now, ticks>>

\* Variant of mark_as_read that flips the flag.
Read_toggle(o, t) == [o EXCEPT !.is_read = ~o.is_read, !.read_at = t]

\* mark_as_read, lines 289-290: the instance after the two assignments.
Read(o, t) == [o EXCEPT !.is_read = TRUE, !.read_at = t]

\* mark_as_read begins: the assignments, then self.save() up to its write.
MarkBegin(c) ==
  /\ npc[c] = "idle"
  /\ nobj[c] # NoObj
  /\ marks < MaxMarks
  /\ marks' = marks + 1
  /\ nobj' = [nobj EXCEPT ![c] = Read(nobj[c], now)]
  /\ npc' = [npc EXCEPT ![c] = "save"]
  /\ UNCHANGED <<note, marked, seen, svars, avars, dvars, now, ticks>>

\* mark_as_read ends: save() writes every field of the instance.
MarkCommit(c) ==
  /\ npc[c] = "save"
  /\ note' = nobj[c]
  /\ npc' = [npc EXCEPT ![c] = "idle"]
  /\ marked' = marked + 1
  /\ seen' = [seen EXCEPT ![c] = marked + 1]
  /\ UNCHANGED <<nobj, marks, svars, avars, dvars, now, ticks>>

\* The write fails in the database: nothing is stored.
MarkFails(c) ==
  /\ npc[c] = "save"
  /\ npc' = [npc EXCEPT ![c] = "idle"]
  /\ UNCHANGED <<note, nobj, marks, marked, seen, svars, avars, dvars, now, ticks>>

\* ---- AcademicSession ---------------------------------------------------
\* AcademicSession(...): a new instance, not yet saved; is_current defaults
\* to False and UUIDModel gives a fresh primary key.
SessNew(c) ==
  /\ spc[c] = "idle"
  /\ snext \in SPKs
  /\ sobj' = [sobj EXCEPT ![c] = [held |-> TRUE, pk |-> snext,
                                  is_current |-> FALSE, adding |-> TRUE]]
  /\ snext' = snext + 1
  /\ UNCHANGED <<sess, spc, saves, svars, nvars, dvars, now, ticks>>

\* A caller loads a stored session into an instance of its own.
SessLoad(c, p) ==
  /\ spc[c] = "idle"
  /\ sess[p] # NoRow
  /\ sobj' = [sobj EXCEPT ![c] = [held |-> TRUE, pk |-> p,
                                  is_current |-> sess[p].is_current,
                                  adding |-> FALSE]]
  /\ UNCHANGED <<sess, snext, spc, saves, svars, nvars, dvars, now, ticks>>

\* AcademicSession.save, line 415:
\* objects.filter(is_current=True).update(is_current=False), one statement.
Cleared(t) ==
  [p \in SPKs |-> IF t[p] = NoRow THEN NoRow
                  ELSE [t[p] EXCEPT !.is_current = FALSE]]

\* The caller sets is_current to b and calls save(): lines 413-415 clear the
\* flag of every stored session when b is true; then super().save() runs as
\* far as its write.  No session is removed here, so the lookup of
\* StatusModel.save finds the row of every instance that was loaded.
SessBegin(c, b) ==
  /\ spc[c] = "idle"
  /\ sobj[c] # NoObj
  /\ saves < MaxSaves
  /\ saves' = saves + 1
  /\ sobj' = [sobj EXCEPT ![c].is_current = b]
  /\ sess' = IF b THEN Cleared(sess) ELSE sess
  /\ spc' = [spc EXCEPT ![c] = "save"]
  /\ UNCHANGED <<snext, svars, nvars, dvars, now, ticks>>

\* super().save(), line 416: the row of the instance is updated or inserted.
SessWrite(c) ==
  /\ spc[c] = "save"
  /\ sess' = [sess EXCEPT ![sobj[c].pk] = [is_current |-> sobj[c].is_current]]
  /\ sobj' = [sobj EXCEPT ![c].adding = FALSE]
  /\ spc' = [spc EXCEPT ![c] = "idle"]
  /\ UNCHANGED <<snext, saves, svars, nvars, dvars, now, ticks>>

\* The write fails in the database: the row of the instance is not written;
\* the flags cleared by line 415 stay cleared.
SessFails(c) ==
  /\ spc[c] = "save"
  /\ spc' = [spc EXCEPT ![c] = "idle"]
  /\ UNCHANGED <<sess, snext, sobj, saves, svars, nvars, dvars, now, ticks>>

\* ---- SoftDeleteModel ----------------------------------------------------
\* A caller loads the stored record into an instance of its own.
DLoad(c) ==
  /\ dpc[c] = "idle"
  /\ drow # NoRow
  /\ dobj' = [dobj EXCEPT ![c] = drow]
  /\ dlast' = [dlast EXCEPT ![c] = "none"]
  /\ UNCHANGED <<drow, dpc, dels, svars, nvars, avars, now, ticks>>

\* delete, lines 81-82: the instance after the two assignments;
\* t is timezone.now().
Deleted(o, t) == [o EXCEPT !.is_deleted = TRUE, !.deleted_at = t]

\* Variant of restore that leaves deleted_at as it is.
Restored_flag_only(o) == [o EXCEPT !.is_deleted = FALSE]

\* restore, lines 95-96: the instance after the two assignments.
Restored(o) == [o EXCEPT !.is_deleted = FALSE, !.deleted_at = NoTime]

\* delete() or restore() begins: the assignments, then self.save() as far
\* as the lookup of StatusModel.save, which raises DoesNotExist when the row
\* is gone.
SoftBegin(c, op) ==
  /\ dpc[c] = "idle"
  /\ dobj[c] # NoObj
  /\ dels < MaxDels
  /\ dels' = dels + 1
  /\ dobj' = [dobj EXCEPT ![c] = IF op = "delete" THEN Deleted(dobj[c], now)
                                 ELSE Restored(dobj[c])]
  /\ dpc' = [dpc EXCEPT ![c] = IF drow = NoRow THEN "idle" ELSE op]
  /\ dlast' = [dlast EXCEPT ![c] = IF drow = NoRow THEN "raised" ELSE @]
  /\ UNCHANGED <<drow, svars, nvars, avars, now, ticks>>

\* delete() or restore() ends: super().save() writes every field of the
\* instance WHERE pk = self.pk and inserts the row when none is there.
SoftCommit(c) ==
  /\ dpc[c] # "idle"
  /\ drow' = dobj[c]
  /\ dpc' = [dpc EXCEPT ![c] = "idle"]
  /\ dlast' = [dlast EXCEPT ![c] = IF dpc[c] = "restore" /\ @ = "delete"
                                     THEN "delete, restore" ELSE dpc[c]]
  /\ UNCHANGED <<dobj, dels, svars, nvars, avars, now, ticks>>

\* The write fails in the database: nothing is stored.
SoftFails(c) ==
  /\ dpc[c] # "idle"
  /\ dpc' = [dpc EXCEPT ![c] = "idle"]
  /\ dlast' = [dlast EXCEPT ![c] = "raised"]
  /\ UNCHANGED <<drow, dobj, dels, svars, nvars, avars, now, ticks>>

\* hard_delete, line 89: DELETE WHERE pk = self.pk.  The caller lets go of
\* the instance it deleted.
SoftHardDelete(c) ==
  /\ dpc[c] = "idle"
  /\ dobj[c] # NoObj
  /\ drow' = NoRow
  /\ dobj' = [dobj EXCEPT ![c] = NoObj]
  /\ dlast' = [dlast EXCEPT ![c] = "none"]
  /\ UNCHANGED <<dpc, dels, svars, nvars, avars, now, ticks>>

Next ==
  \/ \E c \in Callers, p \in PKs : Load(c, p)
  \/ \E c \in Callers : Begin(c, MaxCalls)
  \/ \E c \in Callers : Commit(c)
  \/ \E c \in Callers : SaveFails(c)

\* Concurrent callers, each with an instance of its own, on the counters
\* stored at setup.
Spec == Init /\ [][Next]_vars

NextSetup ==
  \/ \E c \in Callers, k \in SequenceType : obj[c] = NoObj /\ New(c, k)
  \/ \E c \in Callers, p \in PKs : obj[c] = NoObj /\ Load(c, p)
  \/ \E c \in Callers : Begin(c, MaxSetupCalls)
  \/ \E c \in Callers : Commit(c)
  \/ \E c \in Callers : SaveFails(c)
  \/ \E c \in Callers : HardDelete(c)

\* Callers that each take one instance at a time, newly constructed or
\* loaded, while counters are also created and removed.
SpecSetup == Init /\ [][NextSetup]_vars

NextSerial ==
  \/ \E p \in PKs : obj[1] = NoObj /\ Load(1, p)
  \/ Begin(1, MaxSerialCalls)
  \/ Commit(1)
  \/ \E u \in {"day", "month", "year"} : Tick(u)

\* One caller using one instance, while the date advances.
SpecSerial == Init /\ [][NextSerial]_vars

NextNotes ==
  \/ \E c \in Callers : Create(c)
  \/ \E c \in Callers : Refresh(c)
  \/ \E c \in Callers : MarkBegin(c)
  \/ \E c \in Callers : MarkCommit(c)
  \/ \E c \in Callers : MarkFails(c)
  \/ \E u \in {"day", "month", "year"} : Tick(u)

\* Concurrent callers on one Notification, while the date advances.
SpecNotes == Init /\ [][NextNotes]_vars

NextSessions ==
  \/ \E c \in Callers : SessNew(c)
  \/ \E c \in Callers, p \in SPKs : SessLoad(c, p)
  \/ \E c \in Callers, b \in BOOLEAN : SessBegin(c, b)
  \/ \E c \in Callers : SessWrite(c)
  \/ \E c \in Callers : SessFails(c)

\* Concurrent callers saving AcademicSession instances.
SpecSessions == Init /\ [][NextSessions]_vars

NextSoft ==
  \/ \E c \in Callers : DLoad(c)
  \/ \E c \in Callers, op \in {"delete", "restore"} : SoftBegin(c, op)
  \/ \E c \in Callers : SoftCommit(c)
  \/ \E c \in Callers : SoftFails(c)
  \/ \E c \in Callers : SoftHardDelete(c)
  \/ Tick("day")

\* Concurrent callers soft-deleting, restoring and hard-deleting one record,
\* while the date advances.
SpecSoft == Init /\ [][NextSoft]_vars

\* ---- reading the history ------------------------------------------------
Calls == DOMAIN log

SameKind(i, j) == log[i].sequence_type = log[j].sequence_type

\* The returned calls on the kind of call j that returned before it.
Before(j) == {i \in Calls : i < j /\ SameKind(i, j)}

\* The decimal value of a string of digits.
DigitValue(ch) == CHOOSE d \in 0..9 : Digits[d + 1] = ch

RECURSIVE Decimal(_)
Decimal(s) == IF s = <<>> THEN 0
              ELSE 10 * Decimal(SubSeq(s, 1, Len(s) - 1)) + DigitValue(s[Len(s)])

IsDigits(s) == \A i \in DOMAIN s : \E d \in 0..9 : Digits[d + 1] = s[i]

RECURSIVE NumDigits(_)
NumDigits(n) == IF n < 10 THEN 1 ELSE 1 + NumDigits(n \div 10)

\* The part of a returned string between the prefix and the suffix.
Numeric(e) ==
  SubSeq(e.string, Len(Setup(e.sequence_type).prefix) + 1,
         Len(e.string) - Len(Setup(e.sequence_type).suffix))

\* The period of a date under a reset frequency.
Period(f, d) ==
  CASE f = "yearly" -> <<d[1]>>
    [] f = "monthly" -> <<d[1], d[2]>>
    [] f = "daily" -> d
    [] f = "never" -> <<>>

\* Caller c begins a call in this step / ends one (returns or raises).
Begins(c) == calls' = calls + 1 /\ obj[c] # NoObj /\ obj'[c] # obj[c]
Ends(c) == pc[c] = "save" /\ pc'[c] = "idle"

\* ---- C1 -----------------------------------------------------------------
\* C1: no two calls on the same kind that returned have returned the same
\* string.
C1_NoStringTwice ==
  \A i, j \in Calls : (i < j /\ SameKind(i, j)) => log[i].string # log[j].string

\* ---- C2 -----------------------------------------------------------------
\* C2: every call returns a number greater than the number of every call on
\* its kind that had returned before it began.
C2_Linearized ==
  \A j \in Calls : \A i \in 1..log[j].begun :
     SameKind(i, j) => log[i].number < log[j].number

\* ---- C3 -----------------------------------------------------------------
\* C3: the stored last_number of a counter that never resets does not
\* decrease from one state to the next.
C3_StoredNeverDecreases ==
  [][\A p \in PKs :
       (rows[p] # NoRow /\ rows'[p] # NoRow /\ rows[p].reset_frequency = "never")
         => rows'[p].last_number >= rows[p].last_number]_vars

\* ---- C4 -----------------------------------------------------------------
\* C4: a call that returns has raised last_number by exactly 1, has stored
\* that number, and has returned prefix, then the number in decimal padded
\* with "0" on the left to at least padding characters and never cut, then
\* suffix; with padding 6 and last_number 0 the digits are "000001".
C4_IncrementStoreFormat ==
  \A j \in Calls :
    LET e == log[j]
        cfg == Setup(e.sequence_type)
        width == IF NumDigits(e.number) > cfg.padding
                   THEN NumDigits(e.number) ELSE cfg.padding
    IN /\ e.number = e.from + 1
       /\ e.stored = e.number
       /\ Len(e.string) = Len(cfg.prefix) + width + Len(cfg.suffix)
       /\ SubSeq(e.string, 1, Len(cfg.prefix)) = cfg.prefix
       /\ SubSeq(e.string, Len(e.string) - Len(cfg.suffix) + 1, Len(e.string)) = cfg.suffix
       /\ IsDigits(Numeric(e))
       /\ Decimal(Numeric(e)) = e.number
       /\ (cfg.padding = 6 /\ e.from = 0)
            => Numeric(e) = <<"0", "0", "0", "0", "0", "1">>

\* C4 witness: a call has returned from last_number 0 with padding 6, a
\* prefix and a suffix.
C4_Witness ==
  \E j \in Calls :
    /\ Setup(log[j].sequence_type).padding = 6
    /\ log[j].from = 0
    /\ log[j].string = INV \o <<"0", "0", "0", "0", "0", "1">> \o SLASH_A

\* A call has returned a number of more digits than the padding.
C4_Overflow ==
  \E j \in Calls : NumDigits(log[j].number) > Setup(log[j].sequence_type).padding

\* ---- C5 -----------------------------------------------------------------
\* The sixth call on the student_id counter (prefix "STU-", no suffix,
\* padding 4), begun at last_number 5 after five calls have returned.
IsSixth(j) ==
  /\ log[j].sequence_type = "student_id"
  /\ Cardinality(Before(j)) = 5
  /\ log[j].from = 5

\* C5 as stated: the sixth call returns "STU-000006".
C5_SixthIsSTU000006 ==
  \A j \in Calls : IsSixth(j) => log[j].string = STU \o <<"0", "0", "0", "0", "0", "6">>

\* C5 amended: the sixth call returns "STU-0006", four digits for padding 4.
C5_SixthIsSTU0006 ==
  \A j \in Calls : IsSixth(j) => log[j].string = STU \o <<"0", "0", "0", "6">>

C5_Witness == \E j \in Calls : IsSixth(j)

\* ---- C6 -----------------------------------------------------------------
\* Call i is the returned call on the kind of j that precedes j.
Previous(i, j) == i \in Before(j) /\ \A h \in Before(j) : h <= i

\* C6: a call begun in a later period (year, month, day by reset_frequency)
\* than the previous call on its counter returns number 1.
C6_ResetAtBoundary ==
  \A j \in Calls : \A i \in Calls :
    LET f == Setup(log[j].sequence_type).reset_frequency
    IN (Previous(i, j) /\ f # "never" /\ Period(f, log[i].at) # Period(f, log[j].at))
         => log[j].number = 1

\* ---- C7 -----------------------------------------------------------------
\* C7: after a call whose save failed, the caller's instance holds the
\* last_number it held before the call.
C7_FailedSaveKeepsNumber ==
  \A c \in Callers : err[c] = "DatabaseError" => obj[c].last_number = from[c]

UniqueKinds ==
  \A p, q \in PKs :
    (p # q /\ rows[p] # NoRow /\ rows[q] # NoRow)
      => rows[p].sequence_type # rows[q].sequence_type

\* A step of a call of caller c leaves the rows of every other kind as
\* they are.
Frame(c) ==
  \A p \in PKs :
    (rows[p] # NoRow /\ rows[p].sequence_type # obj[c].sequence_type)
      => rows'[p] = rows[p]

C10_ReadStays ==
  /\ (note # NoRow /\ marked = 0) => (~note.is_read /\ note.read_at = NoTime)
  /\ (note # NoRow /\ marked > 0) => (note.is_read /\ note.read_at # NoTime)
  /\ \A c \in Callers :
       (nobj[c] # NoObj /\ npc[c] = "idle" /\ seen[c] > 0)
         => (nobj[c].is_read /\ nobj[c].read_at # NoTime)

\* C10 witness: two mark_as_read calls have returned and a caller has
\* reloaded the row after the first.
C10_Witness ==
  /\ marked >= 2
  /\ note # NoRow /\ note.is_read
  /\ \E c \in Callers : npc[c] = "idle" /\ seen[c] = 1 /\ nobj[c] = note

\* ---- C11 ----------------------------------------------------------------
Current == {p \in SPKs : sess[p] # NoRow /\ sess[p].is_current}

\* C11: in every reachable state, whatever the sequence and interleaving of
\* AcademicSession.save() calls, at most one stored session has
\* is_current = true.
C11_AtMostOneCurrent == Cardinality(Current) <= 1

\* ---- C12 ----------------------------------------------------------------
\* is_deleted is true exactly when deleted_at is set.
SoftConsistent(o) == o.is_deleted <=> o.deleted_at # NoTime

SoftConsistentEverywhere ==
  /\ drow # NoRow => SoftConsistent(drow)
  /\ \A c \in Callers : dobj[c] # NoObj => SoftConsistent(dobj[c])

\* The step is the return of a delete() or restore() of caller c that
\* raised nothing.
SoftReturns(c, op) ==
  /\ dpc[c] = op
  /\ dpc'[c] = "idle"
  /\ dlast'[c] # "raised"

\* C12: delete() sets is_deleted = true and deleted_at to the current time
\* and keeps the row; restore() sets is_deleted = false and deleted_at =
\* null; a stored row goes away only in a hard_delete() step; the stored row
\* and every instance have is_deleted true exactly when deleted_at is set;
\* and delete() followed by restore() leaves is_deleted and deleted_at at
\* the values of a new record.
C12_SoftDeleteKeepsRow ==
  /\ []SoftConsistentEverywhere
  /\ [][ /\ \A c \in Callers :
              /\ (dpc[c] = "idle" /\ dpc'[c] = "delete")
                   => dobj'[c] = [is_deleted |-> TRUE, deleted_at |-> now]
              /\ (dpc[c] = "idle" /\ dpc'[c] = "restore")
                   => dobj'[c] = NotDeleted
              /\ SoftReturns(c, "delete")
                   => /\ drow' # NoRow
                      /\ drow'.is_deleted
                      /\ drow'.deleted_at = dobj[c].deleted_at
              /\ SoftReturns(c, "restore") => drow' = NotDeleted
              /\ (dlast[c] = "delete" /\ dlast'[c] = "delete, restore")
                   => drow' = NotDeleted /\ dobj'[c] = NotDeleted
         /\ (drow # NoRow /\ drow' = NoRow)
              => /\ dels' = dels
                 /\ dpc' = dpc
                 /\ \E c \in Callers : dobj[c] # NoObj /\ dobj'[c] = NoObj
       ]_vars

\* C12 witness: a caller's delete(), made after the date changed, and its
\* restore() have both returned, and the row is stored and not deleted.
C12_Witness ==
  /\ ticks > 0
  /\ drow = NotDeleted
  /\ \E c \in Callers :
       /\ dlast[c] = "delete, restore"
       /\ dpc[c] = "idle"
       /\ dobj[c] = NotDeleted

\* A soft-deleted row is stored with the date of the call.
C12_DeletedStored ==
  drow # NoRow /\ drow.is_deleted /\ drow.deleted_at = <<0, 0, 1>>

\* A delete() met a row that hard_delete() had removed.
C12_RaisedOnRemoved ==
  drow = NoRow /\ \E c \in Callers : dlast[c] = "raised" /\ dobj[c] # NoObj

====
